---- MODULE Spec2Model ----
(***************************************************************************)
(* Model of server.js: the pricing pipeline of shopify-pricing-railway.    *)
(*                                                                         *)
(* Money is an integer number of 1/10000 currency units (so that 0.009 and *)
(* 0.0091 are both representable); a JavaScript string is a sequence of    *)
(* one-character strings; a JavaScript value that may be undefined, a      *)
(* number, a numeric string or a non-numeric string is a record [t, n].    *)
(* Node runs the program on one event loop: an action of the model is one  *)
(* event-loop task, i.e. a handler from the point where it is resumed (or  *)
(* started) to the next await of a remote request.                         *)
(***************************************************************************)
EXTENDS Integers, Sequences, FiniteSets, TLC

\* ------------------------------------------------------------------ bounds
\* How many pricing passes may be started in one behaviour.
MaxRuns == 2
\* How many times the environment may rewrite the feed file.
MaxFeedEdits == 1
\* The largest cost or price the pricing functions are called with on their
\* own, in 1/1000 currency units.
MaxMilli == 10000

\* ----------------------------------------------------------- JS strings
UpperChars == <<"A","B","C","D","E","F","G","H","I","J","K","L","M",
                "N","O","P","Q","R","S","T","U","V","W","X","Y","Z">>
LowerChars == <<"a","b","c","d","e","f","g","h","i","j","k","l","m",
                "n","o","p","q","r","s","t","u","v","w","x","y","z">>

\* String.prototype.toLowerCase, one character
LowerChar(c) ==
  IF \E i \in 1..Len(UpperChars) : UpperChars[i] = c
    THEN LowerChars[CHOOSE i \in 1..Len(UpperChars) : UpperChars[i] = c]
    ELSE c

\* String.prototype.toLowerCase
toLowerCase(s) == [i \in 1..Len(s) |-> LowerChar(s[i])]

\* String.prototype.includes
includes(s, sub) ==
  \E i \in 0..(Len(s) - Len(sub)) : SubSeq(s, i + 1, i + Len(sub)) = sub

RECURSIVE TrimLeft(_)
TrimLeft(s) == IF s # <<>> /\ Head(s) = " " THEN TrimLeft(Tail(s)) ELSE s

RECURSIVE TrimRight(_)
TrimRight(s) ==
  IF s # <<>> /\ s[Len(s)] = " " THEN TrimRight(SubSeq(s, 1, Len(s) - 1)) ELSE s

\* String.prototype.trim
trim(s) == TrimRight(TrimLeft(s))

\* the marker of line 180
Marker == <<"p","r","i","n","t","i","f","y">>

\* ------------------------------------------------------------ JS values
Undef == [t |-> "undef", n |-> 0]
Empty == [t |-> "empty", n |-> 0]
Bad   == [t |-> "bad", n |-> 0]
Num(k) == [t |-> "num", n |-> k]
NumStr(k) == [t |-> "str", n |-> k]

\* ToBoolean: undefined, '' and the number 0 are falsy; any non-empty string
\* (also "0") is truthy
Truthy(v) == \/ v.t \in {"str", "bad"}
             \/ v.t = "num" /\ v.n # 0

\* isNaN(parseFloat(v))
ParsesNaN(v) == v.t \notin {"num", "str"}

\* parseFloat(v) when it is a number
parseFloat(v) == v.n

\* ----------------------------------------------------------------- money
\* 1 currency unit
Unit == 100 * 100
\* 0.01 currency unit
Cent == 100

\* ---------------------------------------------------------- rounding
\* Math.floor(n / d), d > 0
Floor(n, d) == n \div d
\* Math.ceil(n / d), d > 0
Ceil(n, d) == -((-n) \div d)
\* Math.round(n / d) = floor(n/d + 1/2), d > 0
MathRound(n, d) == (2 * n + d) \div (2 * d)
Abs(x) == IF x < 0 THEN -x ELSE x

\* ------------------------------------------------- IEEE-754 doubles
RECURSIVE Pow2(_)
Pow2(k) == IF k <= 0 THEN 1 ELSE 2 * Pow2(k - 1)

RECURSIVE Pow2Mod(_, _)
Pow2Mod(k, m) == IF k <= 0 THEN 1 % m ELSE (2 * Pow2Mod(k - 1, m)) % m

\* x/10000 >= 2^e
AtLeastPow2(x, e) ==
  IF e >= 0 THEN x >= Unit * Pow2(e) ELSE x >= Ceil(Unit, Pow2(-e))

\* the binary exponent e of x/10000: 2^e <= x/10000 < 2^(e+1), for 0 < x/10000 < 1024
Exponent(x) ==
  CHOOSE e \in -14..9 : AtLeastPow2(x, e) /\ ~AtLeastPow2(x, e + 1)

\* the number of fraction bits of the double nearest to x/10000
FracBits(x) == 52 - Exponent(x)

\* (double nearest to x/10000) - x/10000, as a multiple of 1/(10000 * 2^FracBits(x)):
\* round to nearest, ties to even
ReprError(x) ==
  LET s  == FracBits(x)
      r  == ((x % Unit) * Pow2Mod(s, Unit)) % Unit
      r2 == ((x % (2 * Unit)) * Pow2Mod(s, 2 * Unit)) % (2 * Unit)
  IN  IF r * 2 < Unit THEN -r
      ELSE IF r * 2 > Unit THEN Unit - r
      ELSE IF r2 >= Unit THEN Unit - r ELSE -r

\* ------------------------------------------------------------ roundToTwo
\* the mantissa of the double nearest to x/10000 is even
MantissaEven(x) ==
  LET s  == FracBits(x)
      r2 == ((x % (2 * Unit)) * Pow2Mod(s, 2 * Unit)) % (2 * Unit)
  IN  ((r2 + ReprError(x)) \div Unit) % 2 = 0

(***************************************************************************)
(* roundToTwo of a price that lies, as a decimal, exactly half way between *)
(* two cents (x is the price in 1/10000 units, x % 100 = 50).  Line 31     *)
(* works on doubles: the double nearest to the price may lie below it, and *)
(* then (n + Number.EPSILON) * 100 can stay below k + 0.5 and Math.round   *)
(* yields the lower cent (roundToTwo(2.135) is 2.13).  Below 2 the added   *)
(* EPSILON is a whole unit in the last place and the result is the upper   *)
(* cent; from 4 on the sum n + EPSILON is n again; in between the sum is a *)
(* tie that goes to the even mantissa.  The product by 100 is rounded to   *)
(* the double k + 0.5 when it is at most half a unit in the last place     *)
(* below it, which is 0.32 units in the last place of n when 100 n is      *)
(* below 128 * 2^e.                                                        *)
(***************************************************************************)
HalfCentRoundsDown(x) ==
  LET e == Exponent(x)
  IN  /\ e >= 1
      /\ e = 1 => MantissaEven(x)
      /\ 100 * ReprError(x) < -(32 * Unit)
      /\ x < 128 * Cent * Pow2(e)

\* roundToTwo of the rational n/d (currency units): the result in cents
roundToTwo(n, d) ==
  LET k == Floor(100 * n, d)
  IN  IF n > 0 /\ 200 * n = d * (2 * k + 1) /\ HalfCentRoundsDown(50 * (2 * k + 1))
        THEN k
        ELSE MathRound(100 * n, d)

\* applyRounding with mode .99 read as "the next whole unit, plus 0.99"
applyRoundingAbove99(mode, n, d) ==
  CASE mode = "none" -> roundToTwo(n, d)
    [] mode = ".99" -> roundToTwo(100 * Ceil(n, d) + 99, 100)
    [] mode = ".95" -> roundToTwo(100 * Floor(n, d) + 95, 100)
    [] mode = "whole" -> roundToTwo(MathRound(n, d), 1)
    [] OTHER -> roundToTwo(n, d)

\* applyRounding of the rational price n/d (currency units) under the mode:
\* the result in cents
applyRounding(mode, n, d) ==
  CASE mode = "none" -> roundToTwo(n, d)
    [] mode = ".99" ->
         LET nextWhole == Ceil(n, d)
         IN  roundToTwo(100 * nextWhole - 1, 100)
    [] mode = ".95" ->
         LET whole == Floor(n, d)
             \* candidates in cents; the differences over the denominator 100*d
             candidate1 == 100 * whole + 95
             candidate2 == 100 * whole + 195
             diff1 == Abs(candidate1 * d - 100 * n)
             diff2 == Abs(candidate2 * d - 100 * n)
         IN  roundToTwo(IF diff1 <= diff2 THEN candidate1 ELSE candidate2, 100)
    [] mode = "whole" -> roundToTwo(MathRound(n, d), 1)
    [] OTHER -> roundToTwo(n, d)

\* 0.30 and 0.961 of line 159, in 1/10000 units
FixedFee == 3000
Divisor == 9610

\* Line 159 divides doubles.  Where (cost + 0.30) / 0.961 is a whole number k
\* as a decimal the double quotient is k itself or lies one unit in the last
\* place off it; for the costs below 13 it lies above k for k = 1, 2, 9, 10, 11
\* ((0.661 + 0.30) / 0.961 is 1.0000000000000002) and is k for the others.
QuotientAbove(cost) ==
  /\ (cost + FixedFee) % Divisor = 0
  /\ (cost + FixedFee) \div Divisor \in {1, 2, 9, 10, 11}

\* computePriceFromCost: P = (cost + 0.30) / 0.961, then applyRounding;
\* cost and result in 1/10000 units
computePriceFromCost(mode, cost) ==
  LET above == QuotientAbove(cost)
      n     == IF above THEN 10 * (cost + FixedFee) + 1 ELSE cost + FixedFee
      d     == IF above THEN 10 * Divisor ELSE Divisor
  IN  Cent * applyRounding(mode, n, d)

\* ------------------------------------------------- IEEE-754 comparison
(***************************************************************************)
(* Line 194 compares doubles: currentPrice is the double nearest to the    *)
(* decimal the storefront sent, newPrice the double nearest to k/100, and  *)
(* 0.009 the double nearest to 0.009.  When the decimals differ by         *)
(* anything but 0.009 the representation errors (below 1e-12) cannot       *)
(* change the outcome; when they differ by exactly 0.009 the outcome is    *)
(* the sign of the representation errors, which is computed here exactly   *)
(* with residues modulo 10000.  The subtraction itself is exact (the       *)
(* operands are within a factor 2 of each other).                          *)
(***************************************************************************)
\* 0.009 of line 194, in 1/10000 units
Tolerance == 90

\* Math.abs(currentPrice - newPrice) > 0.009 on doubles; the arguments are the
\* decimals in 1/10000 units
ExceedsTolerance(currentPrice, newPrice) ==
  LET d == Abs(currentPrice - newPrice)
  IN  IF d # Tolerance THEN d > Tolerance
      ELSE LET hi == IF currentPrice > newPrice THEN currentPrice ELSE newPrice
               lo == IF currentPrice > newPrice THEN newPrice ELSE currentPrice
               st == FracBits(Tolerance)
           IN  ReprError(hi) * Pow2(st - FracBits(hi))
                 - ReprError(lo) * Pow2(st - FracBits(lo))
               > ReprError(Tolerance)

\* ------------------------------------------------------ the feed file
\* a row of csv.parse(content, {columns: true}): a missing column and an empty
\* cell are both falsy, so both are the empty string / Empty
Row(sku, SKU, cost, cost_usd, price, price_usd) ==
  [sku |-> sku, SKU |-> SKU, cost |-> cost, cost_usd |-> cost_usd,
   price |-> price, price_usd |-> price_usd]

\* the states of the file at ALIEXPRESS_CSV_PATH that the model draws from
FeedFiles ==
  << \* 1: SKU123-like feed: A costs 4.00, B costs 0
     [exists |-> TRUE, readable |-> TRUE,
      rows |-> << Row(<<"A">>, <<>>, NumStr(40000), Empty, Empty, Empty),
                  Row(<<"B">>, <<>>, NumStr(0), NumStr(70000), Empty, Empty) >>],
     \* 2: padded SKU, SKU column, unparsable cost, empty SKU, duplicate, negative
     [exists |-> TRUE, readable |-> TRUE,
      rows |-> << Row(<<" ","A"," ">>, <<>>, NumStr(50000), Empty, Empty, Empty),
                  Row(<<>>, <<"C">>, Empty, Bad, Empty, Empty),
                  Row(<<>>, <<>>, NumStr(30000), Empty, Empty, Empty),
                  Row(<<"D">>, <<>>, Empty, Empty, Empty, NumStr(-10000)),
                  Row(<<"A">>, <<>>, Empty, Empty, NumStr(60000), Empty) >>],
     \* 3: no file
     [exists |-> FALSE, readable |-> FALSE, rows |-> << >>],
     \* 4: a file that readFileSync or csv.parse rejects
     [exists |-> TRUE, readable |-> FALSE, rows |-> << >>] >>

\* ------------------------------------------------ the remote catalog
perPage == 50

PV(sku, offer_id, price, retail_price, default_price, variant_price) ==
  [nul |-> FALSE, sku |-> sku, offer_id |-> offer_id, price |-> price,
   retail_price |-> retail_price, default_price |-> default_price,
   variant_price |-> variant_price]
NullPV ==
  [nul |-> TRUE, sku |-> << >>, offer_id |-> << >>, price |-> Undef,
   retail_price |-> Undef, default_price |-> Undef, variant_price |-> Undef]
PP(variants) == [nul |-> FALSE, hasVariants |-> TRUE, variants |-> variants]
NullPP == [nul |-> TRUE, hasVariants |-> FALSE, variants |-> << >>]
NoVariantsPP == [nul |-> FALSE, hasVariants |-> FALSE, variants |-> << >>]

Filler == PP(<< PV(<<"X">>, << >>, NumStr(10000), Undef, Undef, Undef) >>)
FullPage == [i \in 1..perPage |-> Filler]

\* the pages each remote catalog serves; a page past the last is the empty list
PrintifyCatalogs ==
  << \* 1: three full pages, S3 is the last variant of the last product of page 3
     << FullPage, FullPage,
        [i \in 1..perPage |->
           IF i < perPage THEN Filler
           ELSE PP(<< PV(<<"X">>, << >>, NumStr(10000), Undef, Undef, Undef),
                      PV(<<" ","S","3">>, << >>, Undef, Empty, NumStr(60000),
                         Num(90000)) >>)] >>,
     \* 2: one short page: S3 by its offer_id with a zero and a non-numeric field
     \*    before the usable one, S4 without any usable field, then a null variant
     << << NullPP, NoVariantsPP,
           PP(<< PV(<< >>, << >>, NumStr(20000), Undef, Undef, Undef),
                 PV(<< >>, <<"S","3">>, Num(0), Bad, NumStr(70000), Num(90000)),
                 PV(<<"S","4">>, << >>, Undef, Bad, Empty, Num(0)),
                 NullPV >>) >> >>,
     \* 3: exactly one full page without a match, so page 2 is empty
     << FullPage >> >>

\* GET /shops/{id}/products.json?page=N&limit=50
PrintifyPage(cat, page) ==
  IF page <= Len(PrintifyCatalogs[cat]) THEN PrintifyCatalogs[cat][page] ELSE << >>

\* --------------------------------------------------- the storefront
Str(s) == [t |-> "str", s |-> s]
NoStr == [t |-> "undef", s |-> << >>]
\* a truthy value that is no string (a number in the JSON)
NotAString == [t |-> "num", s |-> << >>]

SV(id, sku) == [nul |-> FALSE, id |-> id, sku |-> sku]
NullSV == [nul |-> TRUE, id |-> 0, sku |-> << >>]
Arr(items) == [t |-> "arr", items |-> items]
NoArr == [t |-> "undef", items |-> << >>]
NotIterable == [t |-> "bad", items |-> << >>]
SP(vendor, title, variants) ==
  [nul |-> FALSE, vendor |-> vendor, title |-> title, variants |-> variants]
NullSP == [nul |-> TRUE, vendor |-> NoStr, title |-> NoStr, variants |-> NoArr]

Generic == <<"G","e","n","e","r","i","c">>
PrintifyPrints == <<"P","r","i","n","t","i","f","y"," ","P","r","i","n","t","s">>
PRINTIFY == <<"P","R","I","N","T","I","F","Y">>
Mug == <<"M","u","g">>
PrintifyTee == <<"T","e","e"," ","b","y"," ","P","R","I","N","T","I","F","Y">>

\* a Link header entry <url>; rel="..."; the url is the number of the page it names
LinkTo(page, rel) == [url |-> page, rel |-> rel]

\* the pages each storefront serves: the products of the page and its Link header
ShopCatalogs ==
  << \* 1: two pages; bulk-feed variants around the tolerance, then a remote one
     << [products |-> << SP(Str(Generic), Str(Mug),
                            Arr(<< SV(1, <<"A">>), SV(2, <<" ","A"," ">>),
                                   SV(3, <<"B">>) >>)) >>,
         link |-> << LinkTo(2, "next") >>],
        [products |-> << SP(Str(PrintifyPrints), Str(Mug),
                            Arr(<< SV(5, <<"S","3">>) >>)) >>,
         link |-> << LinkTo(1, "previous") >>] >>,
     \* 2: one page with malformed records: a null variant, a title that is no
     \*    string, a record routed by its title, a record without variants, a
     \*    vendor that is no string
     << [products |-> << SP(Str(Generic), NoStr,
                            Arr(<< NullSV, SV(1, <<"A">>), SV(3, <<"D">>) >>)),
                         SP(NoStr, NotAString, Arr(<< SV(2, <<"A">>) >>)),
                         SP(NoStr, Str(PrintifyTee), Arr(<< SV(5, <<"S","3">>) >>)),
                         SP(Str(Generic), Str(Mug), NoArr),
                         SP(NotAString, Str(Mug), Arr(<< SV(4, <<"A">>) >>)),
                         SP(Str(Generic), Str(Mug), Arr(<< SV(6, <<"A">>) >>)) >>,
         link |-> << >>] >>,
     \* 3: one page with a remote record and a record whose variants cannot be
     \*    iterated
     << [products |-> << SP(Str(Generic), Str(Mug), Arr(<< SV(4, <<"Z">>) >>)),
                         SP(Str(PRINTIFY), NoStr,
                            Arr(<< SV(6, <<"S","4">>), SV(5, <<"S","9">>) >>)),
                         SP(Str(Generic), Str(Mug), NotIterable),
                         SP(Str(Generic), Str(Mug), Arr(<< SV(1, <<"A">>) >>)) >>,
         link |-> << >>] >>,
     \* 4: one page whose first record is null
     << [products |-> << NullSP,
                         SP(Str(Generic), Str(Mug), Arr(<< SV(1, <<"A">>) >>)) >>,
         link |-> << >>] >> >>

VariantIds == 1..6

\* the prices the storefront holds at the start, by variant id
ShopInitialPrice ==
  [id \in VariantIds |->
     CASE id = 1 -> NumStr(44790)   \* 4.479
       [] id = 2 -> NumStr(44610)   \* 4.461
       [] id = 3 -> NumStr(44700)   \* 4.47
       [] id = 4 -> Bad
       [] id = 5 -> NumStr(65500)   \* 6.55
       [] OTHER  -> Undef]

\* ============================================================== state
VARIABLES
  ROUND_MODE,           \* line 19
  printifyCreds,        \* PRINTIFY_TOKEN && PRINTIFY_SHOP_ID, lines 17-18
  shop,                 \* which storefront of ShopCatalogs answers
  printifyCat,          \* which remote catalog of PrintifyCatalogs answers
  feed,                 \* which state of FeedFiles the feed file is in
  feedEdits,            \* how often the file was rewritten
  aliexpressCostBySku,  \* line 54
  shopPrice,            \* the storefront's price of each variant
  job,                  \* the activation of runPricingJob of each trigger
  runs,                 \* how many passes were started
  started,              \* of each trigger's latest pass: its number, and whether
                        \* it ran with no other pass in progress
  calc                  \* a call of computePriceFromCost or applyRounding on its own

vars == <<ROUND_MODE, printifyCreds, shop, printifyCat, feed, feedEdits,
          aliexpressCostBySku, shopPrice, job, runs, started, calc>>

\* the two places that call runPricingJob: cron.schedule (line 227) and
\* POST /run-job (line 213)
Pass == {"cron", "manual"}

RoundModes == {"none", ".99", ".95", "whole", "nearest"}

\* ------------------------------------------------- loadAliExpressCSV
EmptyMap == [k \in {} |-> 0]

\* r.a || r.b || ... || fallback
FirstTruthy(vals, fallback) ==
  IF \E i \in 1..Len(vals) : Truthy(vals[i])
    THEN vals[CHOOSE i \in 1..Len(vals) :
                Truthy(vals[i]) /\ \A k \in 1..(i - 1) : ~Truthy(vals[k])]
    ELSE fallback

\* lines 64-69: the loop over the records, filling map
RECURSIVE BuildMap(_, _)
BuildMap(rows, map) ==
  IF rows = << >> THEN map
  ELSE LET r == Head(rows)
           sku == trim(IF r.sku # << >> THEN r.sku ELSE r.SKU)
           raw == FirstTruthy(<<r.cost, r.cost_usd, r.price, r.price_usd>>, NumStr(0))
           cost == IF ParsesNaN(raw) THEN 0 ELSE parseFloat(raw)
       IN  BuildMap(Tail(rows),
                    IF sku # << >>
                      THEN [k \in DOMAIN map \cup {sku} |->
                              IF k = sku THEN cost ELSE map[k]]
                      ELSE map)

\* a load that leaves the table as it is when the file is missing
LoadedTableKeptWhenMissing(file, previous) ==
  IF ~file.exists THEN previous
  ELSE IF ~file.readable THEN EmptyMap
  ELSE BuildMap(file.rows, EmptyMap)

\* a load that fills the previous table in place instead of a fresh map
LoadedTableInPlace(file, previous) ==
  IF ~file.exists \/ ~file.readable THEN EmptyMap
  ELSE BuildMap(file.rows, previous)

\* the value loadAliExpressCSV assigns to aliexpressCostBySku (lines 55-76), the
\* table holding previous before the call
LoadedTable(file, previous) ==
  IF ~file.exists THEN EmptyMap
  ELSE IF ~file.readable THEN EmptyMap
  ELSE BuildMap(file.rows, EmptyMap)

\* aliexpressCostBySku[sku] || 0  (line 183)
TableCost(table, sku) == IF sku \in DOMAIN table THEN table[sku] ELSE 0

\* ---------------------------------------- getPrintifyVariantCostBySku
\* line 101, in the order the loop of line 102 visits the fields
PossibleReversed(v) == <<v.variant_price, v.default_price, v.retail_price, v.price>>

Possible(v) == <<v.price, v.retail_price, v.default_price, v.variant_price>>

\* lines 102-105
MatchedCost(v) ==
  LET possible == Possible(v)
      usable(i) == Truthy(possible[i]) /\ ~ParsesNaN(possible[i])
  IN  IF \E i \in 1..Len(possible) : usable(i)
        THEN parseFloat(possible[CHOOSE i \in 1..Len(possible) :
                          usable(i) /\ \A k \in 1..(i - 1) : ~usable(k)])
        ELSE 0

NoMatch == [kind |-> "none", cost |-> 0]
Throws  == [kind |-> "throw", cost |-> 0]

\* lines 96-107: the variants of one product
RECURSIVE ScanVariants(_, _)
ScanVariants(vs, sku) ==
  IF vs = << >> THEN NoMatch
  ELSE LET v == Head(vs)
       IN  IF v.nul THEN Throws      \* v.sku of null: TypeError
           ELSE LET vSku == trim(IF v.sku # << >> THEN v.sku ELSE v.offer_id)
                IN  IF vSku = << >> THEN ScanVariants(Tail(vs), sku)
                    ELSE IF vSku = sku
                      THEN [kind |-> "match", cost |-> MatchedCost(v)]
                    ELSE ScanVariants(Tail(vs), sku)

\* lines 94-108: the products of one page
RECURSIVE ScanProducts(_, _)
ScanProducts(list, sku) ==
  IF list = << >> THEN NoMatch
  ELSE LET p == Head(list)
       IN  IF p.nul \/ ~p.hasVariants THEN ScanProducts(Tail(list), sku)
           ELSE LET r == ScanVariants(p.variants, sku)
                IN  IF r.kind = "none" THEN ScanProducts(Tail(list), sku) ELSE r

\* line 109 read as "list.length <= perPage"
LastPageOffByOne(list) == Len(list) <= perPage

\* line 109: the page was the last one
LastPage(list) == Len(list) < perPage

\* a catch block that returns a cost
CatchCostPositive == 4 * Unit

\* the value of the catch block, line 115
CatchCost == 0

\* ------------------------------------------------------ runPricingJob
\* the per-variant locals of lines 176-195, and what the variant's iteration did
\* so far: which path resolved the cost and how the lookup ended, how many page
\* requests it issued, the table the bulk-feed lookup read
NoCur ==
  [id |-> 0, sku |-> << >>, path |-> "none", end |-> "none", page |-> 0,
   reqs |-> 0, supplierCost |-> 0, newPrice |-> 0, currentPrice |-> Undef,
   table |-> EmptyMap]

IdleJob ==
  [pc |-> "idle", endpoint |-> 0, results |-> << >>, pi |-> 0, vi |-> 0,
   updated |-> 0, skipped |-> 0, errors |-> 0, cur |-> NoCur, log |-> << >>,
   startTable |-> EmptyMap, fetched |-> 0, fetchEnd |-> "none"]

\* line 186 with "<" for "<="
SkipCostStrict(supplierCost) == supplierCost < 0

\* line 186: !supplierCost || supplierCost <= 0
SkipCost(supplierCost) == supplierCost = 0 \/ supplierCost <= 0

\* line 196 followed by a write of the new price into the fetched variant
CountUpdateWriteBack(j, ok) ==
  IF ok THEN [j EXCEPT !.updated = @ + 1,
                       !.results[j.pi].variants.items[j.vi].price =
                          NumStr(j.cur.newPrice)]
  ELSE [j EXCEPT !.errors = @ + 1]

\* line 196 with the two counters exchanged
CountUpdateSwapped(j, ok) ==
  IF ok THEN [j EXCEPT !.errors = @ + 1] ELSE [j EXCEPT !.updated = @ + 1]

\* line 196: if (ok) updated++; else errors++;
CountUpdate(j, ok) ==
  IF ok THEN [j EXCEPT !.updated = @ + 1] ELSE [j EXCEPT !.errors = @ + 1]

\* the variant the loop of line 174 is at
CurrentVariant(j) == j.results[j.pi].variants.items[j.vi]

RECURSIVE RunLoop(_)

\* a loop that steps over the variant after the one it has done
NextVariantSkipping(j, outcome) ==
  RunLoop([j EXCEPT !.vi = @ + 2, !.cur = NoCur,
                    !.log = Append(@, [pi |-> j.pi, vi |-> j.vi, cur |-> j.cur,
                                       outcome |-> outcome])])

\* the end of one iteration of the loop of line 174: the iteration is recorded
\* and the loop goes on with the next variant
NextVariant(j, outcome) ==
  RunLoop([j EXCEPT !.vi = @ + 1, !.cur = NoCur,
                    !.log = Append(@, [pi |-> j.pi, vi |-> j.vi, cur |-> j.cur,
                                       outcome |-> outcome])])

\* a catch that logs and does not count
CatchVariantUncounted(j) == NextVariant(j, "error")

\* line 202-203: the catch of the per-variant try
CatchVariant(j) == NextVariant([j EXCEPT !.errors = @ + 1], "error")

\* lines 186-199 without the comparison of line 194: every computed price is sent
AfterCostUncompared(j) ==
  IF SkipCost(j.cur.supplierCost)
    THEN NextVariant([j EXCEPT !.skipped = @ + 1], "skipped")
  ELSE [j EXCEPT !.pc = "update",
                 !.cur.newPrice = computePriceFromCost(ROUND_MODE, j.cur.supplierCost)]

\* lines 186-199, entered with the resolved cost in j.cur.supplierCost: up to the
\* await of the update request, or to the next variant
AfterCost(j) ==
  IF SkipCost(j.cur.supplierCost)
    THEN NextVariant([j EXCEPT !.skipped = @ + 1], "skipped")
  ELSE LET newPrice == computePriceFromCost(ROUND_MODE, j.cur.supplierCost)
           price == CurrentVariant(j).price
           text == IF Truthy(price) THEN price ELSE NumStr(0)   \* v.price || '0'
           j1 == [j EXCEPT !.cur.newPrice = newPrice, !.cur.currentPrice = text]
       IN  IF ~ParsesNaN(text) /\ ExceedsTolerance(parseFloat(text), newPrice)
             THEN [j1 EXCEPT !.pc = "update"]
             ELSE NextVariant([j1 EXCEPT !.skipped = @ + 1], "skipped")

\* line 180 without its second operand: the title is not looked at
RouteVendorOnly(p) ==
  IF includes(toLowerCase(IF p.vendor.t = "str" THEN p.vendor.s ELSE << >>), Marker)
    THEN "printify"
    ELSE "csv"

\* line 180: the record is remote-catalog-sourced; "throw" when p.title is no string
Route(p) ==
  LET vendor == toLowerCase(IF p.vendor.t = "str" THEN p.vendor.s ELSE << >>)
  IN  IF includes(vendor, Marker) THEN "printify"
      ELSE IF p.title.t = "num" THEN "throw"
      ELSE IF includes(toLowerCase(IF p.title.t = "str" THEN p.title.s ELSE << >>),
                       Marker) THEN "printify"
      ELSE "csv"

\* lines 175-185: one variant, up to the first await of a remote request
ProcessVariant(j, p, v) ==
  IF v.nul THEN CatchVariant(j)                      \* v.sku of null: TypeError
  ELSE LET sku == trim(v.sku)
           route == Route(p)
           c == [NoCur EXCEPT !.id = v.id, !.sku = sku, !.path = route]
       IN  CASE route = "throw" -> CatchVariant([j EXCEPT !.cur = c])
             [] route = "printify" ->
                  IF ~printifyCreds
                    THEN AfterCost([j EXCEPT !.cur = [c EXCEPT !.end = "nocreds"]])
                    ELSE [j EXCEPT !.pc = "lookup",
                                   !.cur = [c EXCEPT !.page = 1, !.reqs = 1]]
             [] OTHER ->
                  AfterCost([j EXCEPT !.cur =
                     [c EXCEPT !.end = "table",
                               !.supplierCost = TableCost(aliexpressCostBySku, sku),
                               !.table = aliexpressCostBySku]])

\* lines 173-174 raise outside the per-variant try: p is null, p.vendor is truthy
\* and no string, or p.variants is truthy and not iterable
ProductThrows(p) == p.nul \/ p.vendor.t = "num" \/ p.variants.t = "bad"

\* lines 172-209 from the variant at (pi, vi) on: up to the next await, the
\* return of line 209 or an exception that leaves runPricingJob
RunLoop(j) ==
  IF j.pi > Len(j.results) THEN [j EXCEPT !.pc = "done"]
  ELSE LET p == j.results[j.pi]
       IN  IF j.vi = 0
             THEN IF ProductThrows(p) THEN [j EXCEPT !.pc = "thrown"]
                  ELSE RunLoop([j EXCEPT !.vi = 1])
           ELSE IF j.vi > Len(p.variants.items)
             THEN RunLoop([j EXCEPT !.pi = @ + 1, !.vi = 0])
           ELSE ProcessVariant(j, p, p.variants.items[j.vi])

\* ------------------------------------------- fetchAllShopifyProducts
\* the products of a page as the storefront serves them now: each variant with
\* its current price
Served(products) ==
  [i \in 1..Len(products) |->
     [products[i] EXCEPT !.variants.items =
        [k \in 1..Len(products[i].variants.items) |->
           LET v == products[i].variants.items[k]
           IN  [nul |-> v.nul, id |-> v.id, sku |-> v.sku,
                price |-> IF v.nul THEN Undef ELSE shopPrice[v.id]]]]]

\* lines 129-135: the next endpoint, 0 for null
NextEndpoint(link) ==
  IF link # << >> /\ \E i \in 1..Len(link) : link[i].rel = "next"
    THEN link[CHOOSE i \in 1..Len(link) :
                link[i].rel = "next" /\ \A k \in 1..(i - 1) : link[k].rel # "next"].url
    ELSE 0

\* a catch block that drops what was accumulated
CaughtResultsDropped(results) == << >>

\* lines 137-140: what fetchAllShopifyProducts returns after an error
CaughtResults(results) == results

\* line 167 returns: the loop of line 172 starts on the returned products
StartLoop(j, products, fetchEnd) ==
  RunLoop([j EXCEPT !.results = products, !.fetchEnd = fetchEnd,
                    !.pi = 1, !.vi = 0])

\* price.toFixed(1)
toFixed1(price) == NumStr(10 * Cent * MathRound(price, 10 * Cent))

\* price.toFixed(2), line 146: the decimal string the storefront receives
toFixed2(price) == NumStr(Cent * MathRound(price, Cent))

\* no pass was started by the trigger
NotStarted == [seq |-> 0, alone |-> TRUE]

\* no call of the pricing functions on their own
NoCalc == [pc |-> "none", arg |-> 0, price |-> 0, again |-> 0]

\* the arguments of such a call: 0.001, 0.002, ... currency units
Args == {10 * i : i \in 1..MaxMilli}

\* ============================================================ actions
\* the deployments the model starts from: rounding mode, whether the remote
\* credentials are configured, the storefront and the remote catalog
Deployments ==
  { <<"none", TRUE, 1, 1>>, <<".99", TRUE, 2, 2>>, <<".95", TRUE, 2, 3>>,
    <<"whole", FALSE, 2, 1>>, <<"nearest", TRUE, 3, 2>>, <<"none", FALSE, 4, 3>> }

Init ==
  /\ \E d \in Deployments :
       /\ ROUND_MODE = d[1]
       /\ printifyCreds = d[2]
       /\ shop = d[3]
       /\ printifyCat = d[4]
  /\ feed = 1
  /\ feedEdits = 0
  /\ aliexpressCostBySku = LoadedTable(FeedFiles[feed], EmptyMap)   \* lines 54, 77
  /\ shopPrice = ShopInitialPrice
  /\ job = [p \in Pass |-> IdleJob]
  /\ runs = 0
  /\ started = [p \in Pass |-> NotStarted]
  /\ calc = NoCalc

\* the environment rewrites, removes or corrupts the feed file
FeedEdit ==
  /\ feedEdits < MaxFeedEdits
  /\ \E f \in 1..Len(FeedFiles) : f # feed /\ feed' = f
  /\ feedEdits' = feedEdits + 1
  /\ UNCHANGED <<calc, started, ROUND_MODE, printifyCreds, shop, printifyCat,
                 aliexpressCostBySku, shopPrice, job, runs>>

\* POST /refresh-aliexpress-csv, lines 78-81
RefreshCsv ==
  /\ aliexpressCostBySku' = LoadedTable(FeedFiles[feed], aliexpressCostBySku)
  /\ UNCHANGED <<calc, started, ROUND_MODE, printifyCreds, shop, printifyCat,
                 feed, feedEdits, shopPrice, job, runs>>

\* the activation is waiting for a remote request
InProgress(j) == j.pc \in {"fetch", "lookup", "update"}

\* the trigger p calls runPricingJob: lines 165-167 and 121-125, up to the await
\* of the first page of products; started numbers the passes in the order of
\* their start and tells of each whether no other pass was in progress during it
StartPass(p) ==
  /\ job[p].pc \in {"idle", "done", "thrown"}
  /\ runs < MaxRuns
  /\ runs' = runs + 1
  /\ aliexpressCostBySku' = LoadedTable(FeedFiles[feed], aliexpressCostBySku)
  /\ job' = [job EXCEPT ![p] =
               [IdleJob EXCEPT !.pc = "fetch", !.endpoint = 1,
                               !.startTable = aliexpressCostBySku']]
  /\ started' = [q \in Pass |->
                   IF q = p
                     THEN [seq |-> runs',
                           alone |-> \A o \in Pass \ {p} : ~InProgress(job[o])]
                   ELSE IF InProgress(job[q]) THEN [started[q] EXCEPT !.alone = FALSE]
                   ELSE started[q]]
  /\ UNCHANGED <<calc, ROUND_MODE, printifyCreds, shop, printifyCat, feed,
                 feedEdits, shopPrice>>

\* the storefront answers the request of line 125: lines 126-136, then either the
\* next page is requested or the pass runs on from line 168
FetchOk(p) ==
  /\ job[p].pc = "fetch"
  /\ LET j == job[p]
         resp == ShopCatalogs[shop][j.endpoint]
         results == j.results \o Served(resp.products)
         endpoint == NextEndpoint(resp.link)
         j1 == [j EXCEPT !.results = results, !.fetched = @ + 1]
     IN  job' = [job EXCEPT ![p] =
                   IF endpoint # 0 THEN [j1 EXCEPT !.endpoint = endpoint]
                   ELSE StartLoop([j1 EXCEPT !.endpoint = 0], results, "exhausted")]
  /\ UNCHANGED <<calc, started, ROUND_MODE, printifyCreds, shop, printifyCat,
                 feed, feedEdits, aliexpressCostBySku, shopPrice, runs>>

\* the request of line 125 fails: lines 137-140, then the pass runs on
FetchFail(p) ==
  /\ job[p].pc = "fetch"
  /\ job' = [job EXCEPT ![p] = StartLoop(job[p], CaughtResults(job[p].results), "failed")]
  /\ UNCHANGED <<calc, started, ROUND_MODE, printifyCreds, shop, printifyCat,
                 feed, feedEdits, aliexpressCostBySku, shopPrice, runs>>

\* the remote catalog answers the request of line 91: lines 92-112, then either
\* the next page is requested or the pass runs on from line 186
LookupPage(p) ==
  /\ job[p].pc = "lookup"
  /\ LET j == job[p]
         list == PrintifyPage(printifyCat, j.cur.page)
         r == ScanProducts(list, j.cur.sku)
         returns(end, cost) ==
           AfterCost([j EXCEPT !.cur.end = end, !.cur.supplierCost = cost])
     IN  job' = [job EXCEPT ![p] =
                   IF list = << >> THEN returns("exhausted", 0)
                   ELSE IF r.kind = "match" THEN returns("match", r.cost)
                   ELSE IF r.kind = "throw" THEN returns("failed", CatchCost)
                   ELSE IF LastPage(list) THEN returns("exhausted", 0)
                   ELSE [j EXCEPT !.cur.page = @ + 1, !.cur.reqs = @ + 1]]
  /\ UNCHANGED <<calc, started, ROUND_MODE, printifyCreds, shop, printifyCat,
                 feed, feedEdits, aliexpressCostBySku, shopPrice, runs>>

\* the request of line 91 fails: lines 113-116, then the pass runs on
LookupFail(p) ==
  /\ job[p].pc = "lookup"
  /\ job' = [job EXCEPT ![p] =
               AfterCost([job[p] EXCEPT !.cur.end = "failed",
                                        !.cur.supplierCost = CatchCost])]
  /\ UNCHANGED <<calc, started, ROUND_MODE, printifyCreds, shop, printifyCat,
                 feed, feedEdits, aliexpressCostBySku, shopPrice, runs>>

\* the storefront accepts the request of line 147: lines 148 and 196, then the
\* pass runs on with the next variant
UpdateOk(p) ==
  /\ job[p].pc = "update"
  /\ shopPrice' = [shopPrice EXCEPT ![job[p].cur.id] = toFixed2(job[p].cur.newPrice)]
  /\ job' = [job EXCEPT ![p] = NextVariant(CountUpdate(job[p], TRUE), "updated")]
  /\ UNCHANGED <<calc, started, ROUND_MODE, printifyCreds, shop, printifyCat,
                 feed, feedEdits, aliexpressCostBySku, runs>>

\* the request of line 147 fails: lines 149-152 and 196, then the pass runs on
UpdateFail(p) ==
  /\ job[p].pc = "update"
  /\ job' = [job EXCEPT ![p] = NextVariant(CountUpdate(job[p], FALSE), "error")]
  /\ UNCHANGED <<calc, started, ROUND_MODE, printifyCreds, shop, printifyCat,
                 feed, feedEdits, aliexpressCostBySku, shopPrice, runs>>

Next ==
  \/ FeedEdit
  \/ RefreshCsv
  \/ \E p \in Pass : StartPass(p)
  \/ \E p \in Pass : FetchOk(p)
  \/ \E p \in Pass : FetchFail(p)
  \/ \E p \in Pass : LookupPage(p)
  \/ \E p \in Pass : LookupFail(p)
  \/ \E p \in Pass : UpdateOk(p)
  \/ \E p \in Pass : UpdateFail(p)

Spec == Init /\ [][Next]_vars

\* --------------------------------- the pricing functions on their own
\* the process as it is after start-up, about to call computePriceFromCost or
\* applyRounding with an argument of Args under the configured mode
PriceInit ==
  /\ ROUND_MODE \in RoundModes
  /\ printifyCreds = FALSE
  /\ shop = 1
  /\ printifyCat = 1
  /\ feed = 1
  /\ feedEdits = 0
  /\ aliexpressCostBySku = LoadedTable(FeedFiles[feed], EmptyMap)
  /\ shopPrice = ShopInitialPrice
  /\ job = [p \in Pass |-> IdleJob]
  /\ runs = 0
  /\ started = [p \in Pass |-> NotStarted]
  /\ \E x \in Args : calc = [NoCalc EXCEPT !.pc = "arg", !.arg = x]

\* computePriceFromCost(cost), lines 156-161
ComputePrice ==
  /\ calc.pc = "arg"
  /\ calc' = [calc EXCEPT !.pc = "priced",
                          !.price = computePriceFromCost(ROUND_MODE, calc.arg)]
  /\ UNCHANGED <<started, ROUND_MODE, printifyCreds, shop, printifyCat, feed,
                 feedEdits, aliexpressCostBySku, shopPrice, job, runs>>

\* applyRounding(priceNum), lines 33-51
ApplyRounding ==
  /\ calc.pc = "arg"
  /\ calc' = [calc EXCEPT !.pc = "rounded",
                          !.price = Cent * applyRounding(ROUND_MODE, calc.arg, Unit)]
  /\ UNCHANGED <<started, ROUND_MODE, printifyCreds, shop, printifyCat, feed,
                 feedEdits, aliexpressCostBySku, shopPrice, job, runs>>

\* applyRounding of the value applyRounding returned
ApplyRoundingAgain ==
  /\ calc.pc = "rounded"
  /\ calc' = [calc EXCEPT !.pc = "rerounded",
                          !.again = Cent * applyRounding(ROUND_MODE, calc.price, Unit)]
  /\ UNCHANGED <<started, ROUND_MODE, printifyCreds, shop, printifyCat, feed,
                 feedEdits, aliexpressCostBySku, shopPrice, job, runs>>

PriceNext == ComputePrice \/ ApplyRounding \/ ApplyRoundingAgain

PriceSpec == PriceInit /\ [][PriceNext]_vars

\* ============================================================= claims
\* the iterations a pass has completed, and those of them that resolved a cost
Entries(p) == {job[p].log[i] : i \in 1..Len(job[p].log)}
Resolved(p) == {e \in Entries(p) : e.cur.end # "none"}
CountOf(p, outcome) ==
  Cardinality({i \in 1..Len(job[p].log) : job[p].log[i].outcome = outcome})
Active(p) == job[p].pc \in {"fetch", "lookup", "update"}

\* C1: a variant whose resolved cost is 0, absent or negative is counted as
\* skipped, no price is computed for it and no update request is ever issued for
\* it, on the bulk-feed path and on the remote-catalog path alike.
C1_NonPositiveCostSkipped ==
  \A p \in Pass :
    /\ job[p].pc = "update" => job[p].cur.supplierCost > 0
    /\ job[p].skipped = CountOf(p, "skipped")
    /\ \A e \in Resolved(p) :
         e.cur.supplierCost <= 0 => e.outcome = "skipped" /\ e.cur.newPrice = 0

\* a pass that skipped a bulk-feed variant of negative cost, a bulk-feed variant
\* absent from the table and a remote variant of cost 0
C1_Witness ==
  \E p \in Pass :
    /\ \E e \in Resolved(p) :
         e.cur.path = "csv" /\ e.cur.supplierCost < 0 /\ e.outcome = "skipped"
    /\ \E e \in Resolved(p) :
         e.cur.path = "printify" /\ e.cur.supplierCost = 0 /\ e.outcome = "skipped"
    /\ job[p].skipped >= 2

\* C2: for a resolved cost > 0 an update request is issued if and only if the
\* decimal prices differ by strictly more than 0.009.
C2_UpdateIffBeyondTolerance ==
  \A p \in Pass :
    /\ job[p].pc = "update" =>
         Abs(parseFloat(job[p].cur.currentPrice) - job[p].cur.newPrice) > Tolerance
    /\ \A e \in Resolved(p) :
         (e.cur.supplierCost > 0 /\ ~ParsesNaN(e.cur.currentPrice)) =>
           (e.outcome \in {"updated", "error"}
              <=> Abs(parseFloat(e.cur.currentPrice) - e.cur.newPrice) > Tolerance)

\* C3: an attempted update that succeeds counts as updated only, one that fails
\* counts as error only; the update never raises, and after it the pass goes on
\* with the next variant of the snapshot.
C3_UpdateCounted ==
  /\ [](\A p \in Pass :
          /\ job[p].updated = CountOf(p, "updated")
          /\ job[p].errors = CountOf(p, "error")
          /\ job[p].updated + job[p].skipped + job[p].errors = Len(job[p].log))
  /\ [][\A p \in Pass :
          (job[p].pc = "update" /\ job'[p] # job[p]) =>
            /\ Len(job'[p].log) > Len(job[p].log)
            /\ LET e == job'[p].log[Len(job[p].log) + 1]
               IN  /\ e.pi = job[p].pi /\ e.vi = job[p].vi /\ e.cur = job[p].cur
                   /\ e.outcome \in {"updated", "error"}
                   /\ e.outcome = "updated" =>
                        shopPrice'[e.cur.id] = NumStr(e.cur.newPrice)
                   /\ e.outcome = "error" => shopPrice' = shopPrice
            /\ \/ job'[p].pi > job[p].pi
               \/ job'[p].pi = job[p].pi /\ job'[p].vi > job[p].vi]_vars

\* a pass in which an update failed, the next variant was processed all the same,
\* and another update succeeded
C3_Witness ==
  \E p \in Pass : \E i, k \in 1..Len(job[p].log) :
    /\ i < k
    /\ job[p].log[i].outcome = "error" /\ job[p].log[i].cur.newPrice > 0
    /\ job[p].log[k].outcome = "updated"
    /\ job[p].errors = 1 /\ job[p].updated = 1

\* the trimmed identifier line 97 compares: sku, or offer_id when sku is empty
ListedSku(v) == trim(IF v.sku # << >> THEN v.sku ELSE v.offer_id)

\* the variants of a page that carry the searched SKU
Matches(list, sku) ==
  {v \in UNION {{p.variants[k] : k \in 1..Len(p.variants)} :
                  p \in {list[i] : i \in 1..Len(list)}} :
     ~v.nul /\ sku # << >> /\ ListedSku(v) = sku}

\* the first field, in the order price, retail_price, default_price,
\* variant_price, that holds a usable (non-zero, numeric) value; 0 when none does
FirstPopulated(v) ==
  LET usable(f) == (f.t = "num" /\ f.n # 0) \/ f.t = "str"
  IN  IF usable(v.price) THEN v.price.n
      ELSE IF usable(v.retail_price) THEN v.retail_price.n
      ELSE IF usable(v.default_price) THEN v.default_price.n
      ELSE IF usable(v.variant_price) THEN v.variant_price.n
      ELSE 0

\* pages 1..n of the remote catalog are full and hold no variant with the SKU
FullWithoutMatch(n, sku) ==
  \A k \in 1..n :
    /\ Len(PrintifyPage(printifyCat, k)) = perPage
    /\ Matches(PrintifyPage(printifyCat, k), sku) = {}

\* C4: the remote lookup requests pages 1, 2, 3, ... in order, and requests no
\* further page once the SKU was found or a page was empty or short of 50
\* products; a match on page 3 of three full pages costs three requests and
\* yields the matched variant's first populated price field.
C4_LookupPagination ==
  /\ [](\A p \in Pass :
          /\ job[p].pc = "lookup" =>
               /\ job[p].cur.page >= 1 /\ job[p].cur.reqs = job[p].cur.page
               /\ FullWithoutMatch(job[p].cur.page - 1, job[p].cur.sku)
          /\ \A e \in Resolved(p) :
               /\ e.cur.end = "match" =>
                    /\ e.cur.reqs >= 1
                    /\ FullWithoutMatch(e.cur.reqs - 1, e.cur.sku)
                    /\ \E v \in Matches(PrintifyPage(printifyCat, e.cur.reqs), e.cur.sku) :
                         e.cur.supplierCost = FirstPopulated(v)
               /\ e.cur.end = "exhausted" =>
                    /\ e.cur.reqs >= 1
                    /\ FullWithoutMatch(e.cur.reqs - 1, e.cur.sku)
                    /\ Len(PrintifyPage(printifyCat, e.cur.reqs)) < perPage
                    /\ Matches(PrintifyPage(printifyCat, e.cur.reqs), e.cur.sku) = {}
               /\ (printifyCat = 1 /\ e.cur.sku = <<"S","3">> /\ e.cur.end = "match") =>
                    e.cur.reqs = 3 /\ e.cur.supplierCost = 60000)
  /\ [][\A p \in Pass :
          (job[p].pc = "lookup" /\ job'[p].pc = "lookup" /\ job'[p] # job[p]
             /\ job'[p].pi = job[p].pi /\ job'[p].vi = job[p].vi) =>
            /\ job'[p].cur.page = job[p].cur.page + 1
            /\ Len(PrintifyPage(printifyCat, job[p].cur.page)) = perPage
            /\ Matches(PrintifyPage(printifyCat, job[p].cur.page), job[p].cur.sku) = {}]_vars

\* a lookup that found its SKU on page 3 of three full pages with three requests
C4_Witness ==
  \E p \in Pass : \E e \in Resolved(p) :
    /\ printifyCat = 1 /\ Len(PrintifyCatalogs[1]) = 3
    /\ \A k \in 1..3 : Len(PrintifyPage(1, k)) = perPage
    /\ e.cur.path = "printify" /\ e.cur.end = "match" /\ e.cur.sku = <<"S","3">>
    /\ e.cur.reqs = 3 /\ e.cur.supplierCost = 60000

\* C5: the remote lookup yields 0 and never raises when the credentials are not
\* configured (and then issues no request), when no variant matches after the
\* full traversal, and when a page request fails; the pass goes on after it.
C5_LookupYieldsZero ==
  /\ [](\A p \in Pass :
          /\ ~printifyCreds => job[p].pc # "lookup"
          /\ \A e \in Resolved(p) :
               /\ e.cur.end = "nocreds" => e.cur.reqs = 0 /\ ~printifyCreds
               /\ e.cur.end \in {"nocreds", "exhausted", "failed"} =>
                    /\ e.cur.path = "printify"
                    /\ e.cur.supplierCost = 0 /\ e.outcome = "skipped")
  /\ [][\A p \in Pass :
          (job[p].pc = "lookup" /\ job'[p] # job[p]) =>
            \/ /\ job'[p].pc = "lookup"
               /\ job'[p].pi = job[p].pi /\ job'[p].vi = job[p].vi
            \/ /\ job'[p].pc = "update"
               /\ job'[p].pi = job[p].pi /\ job'[p].vi = job[p].vi
               /\ job'[p].cur.end = "match"
            \/ /\ Len(job'[p].log) > Len(job[p].log)
               /\ job'[p].log[Len(job[p].log) + 1].pi = job[p].pi
               /\ job'[p].log[Len(job[p].log) + 1].vi = job[p].vi
               /\ \/ job'[p].pi > job[p].pi
                  \/ job'[p].pi = job[p].pi /\ job'[p].vi > job[p].vi]_vars

\* a pass that came to its summary after a page request of a lookup had failed
C5_Witness ==
  \E p \in Pass : \E e \in Resolved(p) :
    /\ job[p].pc = "done"
    /\ e.cur.path = "printify" /\ e.cur.end = "failed" /\ e.cur.reqs >= 1
    /\ e.cur.supplierCost = 0 /\ e.outcome = "skipped"

\* the products of pages 1..n of the storefront, as catalogued (without prices)
RECURSIVE Catalogued(_)
Catalogued(n) ==
  IF n = 0 THEN << >> ELSE Catalogued(n - 1) \o ShopCatalogs[shop][n].products

\* a fetched snapshot without the prices
Unpriced(products) ==
  [i \in 1..Len(products) |->
     [products[i] EXCEPT !.variants.items =
        [k \in 1..Len(products[i].variants.items) |->
           [nul |-> products[i].variants.items[k].nul,
            id |-> products[i].variants.items[k].id,
            sku |-> products[i].variants.items[k].sku]]]]

RECURSIVE VariantCount(_)
VariantCount(products) ==
  IF products = << >> THEN 0
  ELSE Len(Head(products).variants.items) + VariantCount(Tail(products))

\* C6: the fetcher requests page after page as long as a response names a next
\* page and returns the products of all pages in order; when the request for
\* page k fails it returns exactly the products of pages 1..k-1, without raising,
\* and the pass reconciles those.
C6_FetchAccumulates ==
  \A p \in Pass :
    /\ job[p].pc = "fetch" =>
         /\ job[p].endpoint = job[p].fetched + 1
         /\ job[p].endpoint <= Len(ShopCatalogs[shop])
         /\ Unpriced(job[p].results) = Catalogued(job[p].fetched)
    /\ job[p].pc \in {"lookup", "update", "done", "thrown"} =>
         /\ job[p].fetchEnd \in {"exhausted", "failed"}
         /\ Unpriced(job[p].results) = Catalogued(job[p].fetched)
         /\ job[p].fetchEnd = "exhausted" => job[p].fetched = Len(ShopCatalogs[shop])
         /\ job[p].fetchEnd = "failed" => job[p].fetched < Len(ShopCatalogs[shop])
    /\ job[p].pc = "done" => Len(job[p].log) = VariantCount(job[p].results)

\* a pass whose request for page 2 failed and that reconciled the products of
\* page 1 up to its summary
C6_Witness ==
  \E p \in Pass :
    /\ job[p].pc = "done" /\ job[p].fetchEnd = "failed" /\ job[p].fetched = 1
    /\ Len(ShopCatalogs[shop]) = 2
    /\ job[p].results # << >>
    /\ Len(job[p].log) = VariantCount(ShopCatalogs[shop][1].products)

\* C7: at most one pricing pass is in progress at any time.
C7_SingleFlight == Cardinality({p \in Pass : Active(p)}) <= 1

\* C8: every bulk-feed lookup of a pass reads the table the pass loaded at its
\* start.
C8_TableSnapshot ==
  \A p \in Pass :
    \A e \in Resolved(p) : e.cur.path = "csv" => e.cur.table = job[p].startTable

\* the table that holds exactly the feed: a key for every non-empty trimmed SKU,
\* with the cost of the last row that carries it
RowSku(r) == trim(IF r.sku # << >> THEN r.sku ELSE r.SKU)
RowCost(r) ==
  LET c == IF r.cost.t # "empty" THEN r.cost
           ELSE IF r.cost_usd.t # "empty" THEN r.cost_usd
           ELSE IF r.price.t # "empty" THEN r.price
           ELSE r.price_usd
  IN  IF c.t = "str" THEN c.n ELSE 0
TableOfFeed(file) ==
  IF ~file.exists \/ ~file.readable THEN EmptyMap
  ELSE LET keyed == {i \in 1..Len(file.rows) : RowSku(file.rows[i]) # << >>}
       IN  [k \in {RowSku(file.rows[i]) : i \in keyed} |->
              RowCost(file.rows[CHOOSE i \in keyed :
                         /\ RowSku(file.rows[i]) = k
                         /\ \A m \in keyed : RowSku(file.rows[m]) = k => m <= i])]

\* C9: a reload swaps the whole table: the table is always either the complete
\* previous table or the complete table of the feed (empty when the feed is
\* missing or unreadable), never a part of it or a mix of old and new entries.
C9_WholeTableSwap ==
  /\ [](\E f \in 1..Len(FeedFiles) : aliexpressCostBySku = TableOfFeed(FeedFiles[f]))
  /\ [][\/ aliexpressCostBySku' = aliexpressCostBySku
        \/ aliexpressCostBySku' = TableOfFeed(FeedFiles[feed])]_vars

\* a reload replaced a non-empty table by another non-empty one while a pass
\* that had loaded the first was waiting on a remote call
C9_Witness ==
  \E p \in Pass :
    /\ Active(p)
    /\ job[p].startTable # EmptyMap
    /\ aliexpressCostBySku # EmptyMap
    /\ aliexpressCostBySku # job[p].startTable
    /\ aliexpressCostBySku = TableOfFeed(FeedFiles[feed])

\* C10: every started pass ends by returning its outcome: nothing, malformed
\* records included, makes runPricingJob raise.
C10_PassReturnsOutcome == \A p \in Pass : job[p].pc # "thrown"

\* the pass of trigger p started after the pass of trigger q had ended, as the
\* next pass, and no other pass was in progress during either
Follows(p, q) ==
  /\ p # q
  /\ job[q].pc \in {"done", "thrown"} /\ started[q].alone
  /\ job[p].pc # "idle" /\ started[p].alone
  /\ started[p].seq = started[q].seq + 1

\* the iteration e0 of the earlier pass was for the same variant as (pi, vi),
\* resolved the cost to the same value, and left the variant with the computed
\* price: it updated it, or skipped it
SettledBefore(e0, pi, vi, cost) ==
  /\ e0.pi = pi /\ e0.vi = vi
  /\ e0.cur.end # "none"
  /\ e0.cur.supplierCost = cost
  /\ e0.outcome \in {"updated", "skipped"}

\* C11: reconciliation is idempotent: when a pass has run and its updates were
\* applied, the next pass issues no update request for a variant whose cost it
\* resolves to the same value (same table, same remote costs, same rounding
\* mode), and counts every such variant, updated or skipped before, as skipped.
C11_Idempotent ==
  \A p, q \in Pass :
    Follows(p, q) =>
      /\ job[p].pc = "update" =>
           \A e0 \in Entries(q) :
             ~SettledBefore(e0, job[p].pi, job[p].vi, job[p].cur.supplierCost)
      /\ \A e \in Entries(p) : \A e0 \in Entries(q) :
           SettledBefore(e0, e.pi, e.vi, e.cur.supplierCost) =>
             /\ e.outcome = "skipped"
             /\ e0.outcome = "updated" =>
                  e.cur.currentPrice = NumStr(e0.cur.newPrice)
      /\ (job[p].pc = "done"
            /\ Len(job[q].log) = Len(job[p].log)
            /\ \A i \in 1..Len(job[p].log) :
                 SettledBefore(job[q].log[i], job[p].log[i].pi, job[p].log[i].vi,
                               job[p].log[i].cur.supplierCost)) =>
           /\ job[p].updated = 0 /\ job[p].errors = 0
           /\ job[p].skipped = job[q].updated + job[q].skipped

\* a pass updated two variants, one priced from the table and one from the
\* remote catalog; the pass after it resolved the same costs and skipped all
\* four variants
C11_Witness ==
  \E p, q \in Pass :
    /\ Follows(p, q)
    /\ job[q].pc = "done" /\ job[q].updated = 2 /\ job[q].skipped = 2
    /\ job[p].pc = "done" /\ job[p].updated = 0 /\ job[p].skipped = 4
    /\ \A i \in 1..4 :
         SettledBefore(job[q].log[i], job[p].log[i].pi, job[p].log[i].vi,
                       job[p].log[i].cur.supplierCost)
    /\ \E i \in 1..4 : job[q].log[i].cur.end = "table" /\ job[q].log[i].outcome = "updated"
    /\ \E i \in 1..4 : job[q].log[i].cur.end = "match" /\ job[q].log[i].outcome = "updated"

\* the letter c is the lower-case letter m or its capital
SameLetter(c, m) ==
  \/ c = m
  \/ \E i \in 1..Len(LowerChars) : LowerChars[i] = m /\ UpperChars[i] = c

\* the field is a string that contains 'printify', whatever the case of its letters
HasMarker(f) ==
  /\ f.t = "str"
  /\ \E i \in 0..(Len(f.s) - Len(Marker)) :
       \A k \in 1..Len(Marker) : SameLetter(f.s[i + k], Marker[k])

\* the record's vendor or title carries the marker
Marked(prod) == HasMarker(prod.vendor) \/ HasMarker(prod.title)

RemoteEnds == {"nocreds", "match", "exhausted", "failed"}

C13_MarginGuaranteed ==
  calc.pc = "priced" =>
    1000 * calc.price - 29 * calc.price - 1000 * (FixedFee + calc.arg)
      >= 10 * calc.price

\* C14: rounding is idempotent in every mode: applyRounding of a value that
\* applyRounding returned is that value.
C14_RoundingIdempotent ==
  /\ calc.pc \in {"rounded", "rerounded"} => calc.price % Cent = 0
  /\ calc.pc = "rerounded" => calc.again = calc.price

\* 7.20 was rounded to 7.99 under mode .99, and 7.99 again to 7.99
C14_Witness ==
  /\ ROUND_MODE = ".99" /\ calc.pc = "rerounded"
  /\ calc.arg = 72000 /\ calc.price = 79900 /\ calc.again = 79900

\* C15: after any reload the table is exactly the mapping built from the feed
\* as it is then, with nothing carried over from the table before: rows with an
\* empty SKU contribute nothing, an unparsable cost is stored as 0, the last row
\* of a SKU wins, and a missing or unreadable feed yields the empty table.
C15_ReloadRebuilds ==
  /\ aliexpressCostBySku = TableOfFeed(FeedFiles[feed])
  /\ [](\A f \in 1..Len(FeedFiles) :
          LoadedTable(FeedFiles[f], aliexpressCostBySku) = TableOfFeed(FeedFiles[f]))
  /\ [][(runs' # runs \/ aliexpressCostBySku' # aliexpressCostBySku) =>
          /\ aliexpressCostBySku' = TableOfFeed(FeedFiles[feed])
          /\ feed = 2 =>
               aliexpressCostBySku' =
                 (<<"A">> :> 60000 @@ <<"C">> :> 0 @@ <<"D">> :> -10000)
          /\ feed \in {3, 4} => aliexpressCostBySku' = EmptyMap]_vars

\* the feed was rewritten and reloaded: the table holds the feed's three SKUs,
\* the last cost of the duplicate one and 0 for the unparsable cost, and nothing
\* of the table before
C15_Witness ==
  /\ feed = 2 /\ runs >= 1
  /\ DOMAIN aliexpressCostBySku = {<<"A">>, <<"C">>, <<"D">>}
  /\ aliexpressCostBySku[<<"A">>] = 60000
  /\ aliexpressCostBySku[<<"C">>] = 0
  /\ <<"B">> \in DOMAIN TableOfFeed(FeedFiles[1])

\* the number of variants of the first n products of a snapshot
VariantsOf(products, n) == VariantCount(SubSeq(products, 1, n))

\* the place of the variant (pi, vi) in the snapshot, counted from 1
PlaceOf(products, pi, vi) == VariantsOf(products, pi - 1) + vi

\* the number of variants the loop of lines 172-206 has left behind
Passed(j) ==
  IF j.pi = 0 THEN 0
  ELSE VariantsOf(j.results, j.pi - 1) + (IF j.vi = 0 THEN 0 ELSE j.vi - 1)

Awaiting(p) == job[p].pc \in {"lookup", "update"}

\* C16: within a pass the variants are processed one after another in snapshot
\* order: while a lookup or an update of a variant is outstanding every variant
\* before it has completed and none after it was begun, and the request that
\* follows is for the same variant (a further page, or the update after the
\* lookup) or for a later one, after the variant has completed.
C16_Sequential ==
  /\ [](\A p \in Pass :
          /\ \A i \in 1..Len(job[p].log) :
               LET e == job[p].log[i]
               IN  /\ e.pi \in 1..Len(job[p].results)
                   /\ e.vi \in 1..Len(job[p].results[e.pi].variants.items)
                   /\ PlaceOf(job[p].results, e.pi, e.vi) = i
          /\ Awaiting(p) =>
               /\ job[p].pi \in 1..Len(job[p].results)
               /\ job[p].vi \in 1..Len(job[p].results[job[p].pi].variants.items)
               /\ PlaceOf(job[p].results, job[p].pi, job[p].vi) = Len(job[p].log) + 1
               /\ job[p].cur.id = CurrentVariant(job[p]).id)
  /\ [][\A p \in Pass :
          (Awaiting(p) /\ job'[p] # job[p] /\ job'[p].pc \in {"lookup", "update"}) =>
            \/ /\ job'[p].pi = job[p].pi /\ job'[p].vi = job[p].vi
               /\ job'[p].log = job[p].log
               /\ job[p].pc = "lookup"
            \/ /\ Len(job'[p].log) > Len(job[p].log)
               /\ SubSeq(job'[p].log, 1, Len(job[p].log)) = job[p].log
               /\ job'[p].log[Len(job[p].log) + 1].pi = job[p].pi
               /\ job'[p].log[Len(job[p].log) + 1].vi = job[p].vi
               /\ PlaceOf(job'[p].results, job'[p].pi, job'[p].vi)
                    > PlaceOf(job[p].results, job[p].pi, job[p].vi)]_vars

\* the update of the fourth variant is outstanding: its lookup took three page
\* requests, and the three variants before it have completed, the first of them
\* with an update
C16_Witness ==
  \E p \in Pass :
    /\ job[p].pc = "update" /\ job[p].cur.reqs = 3
    /\ Len(job[p].log) = 3
    /\ job[p].log[1].outcome = "updated"
    /\ PlaceOf(job[p].results, job[p].pi, job[p].vi) = 4

\* the phases of a pass, in their order
Rank(pc) ==
  CASE pc = "idle" -> 0
    [] pc = "fetch" -> 1
    [] pc \in {"lookup", "update"} -> 2
    [] OTHER -> 3

\* the variant's cost was resolved to a positive value, its price computed and
\* compared with the price of the snapshot
ResolvedComputedCompared(c, v) ==
  /\ c.end \in {"table", "match"}
  /\ c.supplierCost > 0
  /\ c.newPrice = computePriceFromCost(ROUND_MODE, c.supplierCost)
  /\ c.currentPrice = (IF Truthy(v.price) THEN v.price ELSE NumStr(0))
  /\ ~ParsesNaN(c.currentPrice)
  /\ ExceedsTolerance(parseFloat(c.currentPrice), c.newPrice)

\* C17: a pass goes through its phases in order: the table is reloaded when the
\* pass starts, before the first page of the catalog is requested; no variant
\* is resolved before the fetch has ended; an update request is only issued for
\* a variant whose cost was resolved to a positive value and whose price was
\* computed and compared in this pass; the summary comes last.
C17_PhaseOrder ==
  /\ [](\A p \in Pass :
          /\ job[p].pc = "fetch" =>
               /\ job[p].log = << >> /\ job[p].cur = NoCur /\ job[p].pi = 0
               /\ job[p].fetchEnd = "none"
               /\ job[p].updated + job[p].skipped + job[p].errors = 0
          /\ (Rank(job[p].pc) >= 2 \/ job[p].log # << >>) =>
               job[p].fetchEnd \in {"exhausted", "failed"}
          /\ job[p].pc = "update" =>
               ResolvedComputedCompared(job[p].cur, CurrentVariant(job[p]))
          /\ \A e \in Entries(p) :
               e.outcome = "updated" =>
                 ResolvedComputedCompared(e.cur,
                                          job[p].results[e.pi].variants.items[e.vi])
          /\ job[p].pc = "done" =>
               /\ job[p].pi = Len(job[p].results) + 1
               /\ Len(job[p].log) = VariantCount(job[p].results))
  /\ [][\A p \in Pass :
          /\ (job'[p].pc = "fetch" /\ job[p].pc # "fetch") =>
               /\ Rank(job[p].pc) \in {0, 3}
               /\ aliexpressCostBySku' = TableOfFeed(FeedFiles[feed])
               /\ job'[p].startTable = aliexpressCostBySku'
               /\ job'[p].fetched = 0 /\ job'[p].results = << >>
          /\ job'[p] # job[p] =>
               \/ Rank(job'[p].pc) >= Rank(job[p].pc)
               \/ Rank(job[p].pc) = 3 /\ job'[p].pc = "fetch"]_vars

\* a pass came to its summary after it had fetched two pages, looked a cost up
\* in the table and another in the remote catalog, and updated both variants
C17_Witness ==
  \E p \in Pass : \E e1, e2 \in Entries(p) :
    /\ job[p].pc = "done" /\ job[p].fetched = 2
    /\ job[p].startTable # EmptyMap
    /\ e1.cur.end = "table" /\ e1.outcome = "updated"
    /\ e2.cur.end = "match" /\ e2.outcome = "updated"

\* C18: an update request changes neither the snapshot of the pass (nor that of
\* another pass) nor the cost table, whether it succeeds or fails; and a pass
\* issues at most one update request for each variant of its snapshot.
C18_UpdateLeavesSnapshot ==
  /\ [](\A p \in Pass :
          /\ \A i, k \in 1..Len(job[p].log) :
               (job[p].log[i].pi = job[p].log[k].pi
                  /\ job[p].log[i].vi = job[p].log[k].vi) => i = k
          /\ job[p].pc = "update" =>
               \A e \in Entries(p) : e.pi # job[p].pi \/ e.vi # job[p].vi)
  /\ [][\A p \in Pass :
          (job[p].pc = "update" /\ job'[p] # job[p]) =>
            /\ job'[p].results = job[p].results
            /\ CurrentVariant(job[p]).price = job[p].cur.currentPrice
            /\ \A q \in Pass : job'[q].results = job[q].results
            /\ aliexpressCostBySku' = aliexpressCostBySku]_vars

\* an update was applied by the storefront while the snapshot of the pass still
\* holds the price that was fetched
C18_Witness ==
  \E p \in Pass : \E e \in Entries(p) :
    /\ e.outcome = "updated"
    /\ shopPrice[e.cur.id] = NumStr(e.cur.newPrice)
    /\ job[p].results[e.pi].variants.items[e.vi].price = e.cur.currentPrice
    /\ e.cur.currentPrice # NumStr(e.cur.newPrice)
    /\ aliexpressCostBySku # EmptyMap

\* C19: each variant of the snapshot is counted exactly once: at every point of
\* a pass updated + skipped + errors is the number of variants the loop has left
\* behind, and in the returned outcome it is the number of variants of the
\* snapshot.
C19_CountedOnce ==
  \A p \in Pass :
    /\ job[p].updated >= 0 /\ job[p].skipped >= 0 /\ job[p].errors >= 0
    /\ job[p].updated + job[p].skipped + job[p].errors = Passed(job[p])
    /\ job[p].pc = "done" =>
         job[p].updated + job[p].skipped + job[p].errors
           = VariantCount(job[p].results)

\* a pass returned an outcome with updates, skips and errors that add up to the
\* four variants of its snapshot
C19_Witness ==
  \E p \in Pass :
    /\ job[p].pc = "done"
    /\ job[p].updated >= 1 /\ job[p].skipped >= 1 /\ job[p].errors >= 1
    /\ VariantCount(job[p].results) = 4
    /\ job[p].updated + job[p].skipped + job[p].errors = 4

====
